---- MODULE Spec2Model ----
(***************************************************************************)
(* Linking of TypeScript project references (src/src/link.rs).             *)
(*                                                                         *)
(* A String is a sequence of one-character strings, a path is a sequence   *)
(* of components (Strings).  A configuration document is a function from   *)
(* JSON keys to values; the disk maps a directory to the contents of the   *)
(* tsconfig.json stored in it.                                             *)
(***************************************************************************)
EXTENDS Integers, Sequences, FiniteSets, TLC

VARIABLES
    manifests,                    \* package name -> [directory, dependencies]
    action,                       \* opts::Action of the current run
    disk,                         \* directory -> contents of its tsconfig.json
    pc,                           \* "start" | "children" | "dependencies" | "done"
    hierarchy,                    \* entries of the folded HashMap not yet visited
    pendingPackages,              \* package names the diff closure has not visited
    tsconfig_diffs,               \* the Some(tsconfig) entries still to act upon
    is_children_link_success,
    is_dependencies_link_success,
    reports,                      \* what the run printed on stdout
    written,                      \* directories whose document the run wrote
    failure,                      \* LinkErrorKind a pass returned, or "none"
    result,                       \* how link_typescript_project_references ended
    lastWrite,                    \* documents written by the preceding run, when
                                  \* that run was a Write that returned Ok(())
    accumulator,                  \* HashMap being folded by key_children_by_parent
    unfolded,                     \* directories not yet folded
    folded                        \* directories already folded

vars == <<manifests, action, disk, pc, hierarchy, pendingPackages, tsconfig_diffs,
          is_children_link_success, is_dependencies_link_success, reports,
          written, failure, result, lastWrite, accumulator, unfolded, folded>>

runVars == <<manifests, action, disk, pc, hierarchy, pendingPackages, tsconfig_diffs,
             is_children_link_success, is_dependencies_link_success, reports,
             written, failure, result, lastWrite>>

foldVars == <<accumulator, unfolded, folded>>

(***************************************************************************)
(* Bounds of the fold specification.                                       *)
(***************************************************************************)
MaxDepth == 3
MaxManifests == 2

(***************************************************************************)
(* Strings and their order.                                                *)
(***************************************************************************)
\* the characters in use, in byte order ('.' < '/' < letters)
Alphabet == <<".", "/", "a", "b", "c", "p">>

Rank(ch) == CHOOSE i \in 1..Len(Alphabet) : Alphabet[i] = ch

\* Ord for String: bytewise lexicographic, a proper prefix sorts first
RECURSIVE StrLess(_, _)
StrLess(s, t) ==
    IF t = <<>> THEN FALSE
    ELSE IF s = <<>> THEN TRUE
    ELSE IF Head(s) = Head(t) THEN StrLess(Tail(s), Tail(t))
    ELSE Rank(Head(s)) < Rank(Head(t))

RECURSIVE InsertSorted(_, _)
InsertSorted(x, sorted) ==
    IF sorted = <<>> THEN <<x>>
    ELSE IF StrLess(Head(sorted), x) THEN <<Head(sorted)>> \o InsertSorted(x, Tail(sorted))
    ELSE <<x>> \o sorted

\* Vec<String>::sort_unstable
RECURSIVE sort_unstable(_)
sort_unstable(v) ==
    IF v = <<>> THEN <<>> ELSE InsertSorted(Head(v), sort_unstable(Tail(v)))

Contains(v, x) == \E i \in 1..Len(v) : v[i] = x

\* every order in which the elements of a set can be iterated
Orderings(S) ==
    {o \in [1..Cardinality(S) -> S] : \A i, j \in 1..Cardinality(S) : o[i] = o[j] => i = j}

(***************************************************************************)
(* Paths.                                                                  *)
(***************************************************************************)
ParentDir == <<".", ".">>

\* Path::to_str: the components joined by '/'
RECURSIVE to_str(_)
to_str(path) ==
    IF path = <<>> THEN <<>>
    ELSE IF Len(path) = 1 THEN Head(path)
    ELSE Head(path) \o <<"/">> \o to_str(Tail(path))

\* pathdiff::diff_paths on two relative paths of normal components: the loop
\* over both component iterators, comps being the components pushed so far
RECURSIVE diff_components(_, _, _)
diff_components(ita, itb, comps) ==
    IF ita = <<>> /\ itb = <<>> THEN comps
    ELSE IF itb = <<>> THEN comps \o ita
    ELSE IF ita = <<>> THEN diff_components(<<>>, Tail(itb), Append(comps, ParentDir))
    ELSE IF comps = <<>> /\ Head(ita) = Head(itb)
         THEN diff_components(Tail(ita), Tail(itb), comps)
    ELSE Append(comps, ParentDir) \o [i \in 1..Len(Tail(itb)) |-> ParentDir] \o ita

diff_paths(path, base) == diff_components(path, base, <<>>)

(***************************************************************************)
(* key_children_by_parent and create_project_references.                   *)
(***************************************************************************)
\* HashMap::entry(key).or_default()
or_default(map, key) == IF key \in DOMAIN map THEN map[key] ELSE <<>>

\* the loop body of key_children_by_parent for the component at position i
RECURSIVE key_children_from(_, _, _)
key_children_from(acc, directory, i) ==
    IF i > Len(directory) THEN acc
    ELSE LET path_so_far == SubSeq(directory, 1, i - 1)
             children == or_default(acc, path_so_far)
             new_child == directory[i]
             pushed == IF ~Contains(children, new_child)
                       THEN Append(children, new_child)
                       ELSE children
         IN  key_children_from((path_so_far :> pushed) @@ acc, directory, i + 1)

\* key_children_by_parent with the contains test of line 94 left out
RECURSIVE key_children_no_dedup_from(_, _, _)
key_children_no_dedup_from(acc, directory, i) ==
    IF i > Len(directory) THEN acc
    ELSE LET path_so_far == SubSeq(directory, 1, i - 1)
             children == or_default(acc, path_so_far)
         IN  key_children_no_dedup_from(
                 (path_so_far :> Append(children, directory[i])) @@ acc, directory, i + 1)

key_children_no_dedup(acc, directory) == key_children_no_dedup_from(acc, directory, 1)

key_children_by_parent(acc, directory) == key_children_from(acc, directory, 1)

TypescriptProjectReference(p) == [path |-> p]

\* create_project_references with the sort of line 106 left out
create_project_references_unsorted(children) ==
    [i \in 1..Len(children) |-> TypescriptProjectReference(children[i])]

create_project_references(children) ==
    LET sorted == sort_unstable(children)
    IN  [i \in 1..Len(sorted) |-> TypescriptProjectReference(sorted[i])]

(***************************************************************************)
(* The fold of key_children_by_parent over a set of package directories,   *)
(* one manifest per step, in any order.                                    *)
(***************************************************************************)
Components == {<<"a">>, <<"b">>}

RECURSIVE PathsOfLength(_)
PathsOfLength(n) ==
    IF n = 0 THEN {<<>>}
    ELSE {Append(p, c) : p \in PathsOfLength(n - 1), c \in Components}

Directories == UNION {PathsOfLength(n) : n \in 1..MaxDepth}

EmptyMap == [k \in {} |-> <<>>]

IdleRun ==
    /\ manifests = EmptyMap
    /\ action = "Write"
    /\ disk = EmptyMap
    /\ pc = "fold"
    /\ hierarchy = EmptyMap
    /\ pendingPackages = {}
    /\ tsconfig_diffs = <<>>
    /\ is_children_link_success = TRUE
    /\ is_dependencies_link_success = TRUE
    /\ reports = {}
    /\ written = {}
    /\ failure = "none"
    /\ result = "none"
    /\ lastWrite = "none"

InitFold ==
    /\ IdleRun
    /\ accumulator = EmptyMap
    /\ folded = {}
    /\ unfolded \in {S \in SUBSET Directories : Cardinality(S) \in 1..MaxManifests}

FoldStep ==
    \E d \in unfolded :
        /\ accumulator' = key_children_by_parent(accumulator, d)
        /\ unfolded' = unfolded \ {d}
        /\ folded' = folded \cup {d}
        /\ UNCHANGED runVars

NextFold == FoldStep

SpecFold == InitFold /\ [][NextFold]_vars

(***************************************************************************)
(* Ancestors and children of a set of package directories.                 *)
(***************************************************************************)
IsProperPrefix(p, d) == Len(p) < Len(d) /\ SubSeq(d, 1, Len(p)) = p

NextSegments(dirs, key) == {d[Len(key) + 1] : d \in {x \in dirs : IsProperPrefix(key, x)}}

AncestorKeys(dirs) == UNION {{SubSeq(d, 1, k) : k \in 0..(Len(d) - 1)} : d \in dirs}

(***************************************************************************)
(* The monorepos of the linking specification: up to three packages, none  *)
(* nested in another, with every declared dependency between them.         *)
(***************************************************************************)
Names == {"a", "b", "c"}

\* PackageManifest::directory
PackageDirectory == [n \in Names |->
    IF n = "a" THEN <<<<"p">>, <<"a">>>>
    ELSE IF n = "b" THEN <<<<"p">>, <<"b">>>>
    ELSE <<<<"c">>>>]

\* the internal dependencies a package may declare
DeclarableDependencies == [n \in Names |->
    IF n = "a" THEN {"b", "c"} ELSE IF n = "b" THEN {"a"} ELSE {"a"}]

DependencyGraphs == {g \in [Names -> SUBSET Names] : \A n \in Names : g[n] \subseteq DeclarableDependencies[n]}

ManifestSets ==
    {[n \in S |-> [directory |-> PackageDirectory[n], dependencies |-> g[n] \cap S]] :
        S \in (SUBSET Names) \ {{}}, g \in DependencyGraphs}

PackageDirectories(m) == {m[n].directory : n \in DOMAIN m}

PackageAt(m, d) == CHOOSE n \in DOMAIN m : m[n].directory = d

Actions == {"Write", "Lint"}

(***************************************************************************)
(* What each managed document is meant to list.                            *)
(***************************************************************************)
\* length of the longest common prefix of two paths
RECURSIVE CommonPrefixLen(_, _)
CommonPrefixLen(p, q) ==
    IF p = <<>> \/ q = <<>> \/ Head(p) # Head(q) THEN 0
    ELSE 1 + CommonPrefixLen(Tail(p), Tail(q))

\* strip the common prefix, one ".." per remaining segment of the dependent,
\* then the remainder of the dependency
ExpectedRelativePath(dependent, dependency) ==
    LET k == CommonPrefixLen(dependent, dependency)
    IN  to_str([i \in 1..(Len(dependent) - k) |-> ParentDir]
               \o SubSeq(dependency, k + 1, Len(dependency)))

ExpectedPaths(m, d) ==
    IF d \in PackageDirectories(m)
    THEN {ExpectedRelativePath(d, m[n].directory) : n \in m[PackageAt(m, d)].dependencies}
    ELSE {to_str(<<c>>) : c \in NextSegments(PackageDirectories(m), d)}

PathsOf(refs) == {refs[i].path : i \in 1..Len(refs)}

IsAscending(refs) == \A i \in 1..(Len(refs) - 1) : StrLess(refs[i].path, refs[i + 1].path)

ExpectedReferences(m, d) ==
    CHOOSE refs \in [1..Cardinality(ExpectedPaths(m, d)) -> {[path |-> p] : p \in ExpectedPaths(m, d)}] :
        PathsOf(refs) = ExpectedPaths(m, d) /\ IsAscending(refs)

ManagedDirectories(m) == AncestorKeys(PackageDirectories(m)) \cup PackageDirectories(m)

(***************************************************************************)
(* Documents on disk before the first run.                                 *)
(***************************************************************************)
Reverse(s) == [i \in 1..Len(s) |-> s[Len(s) + 1 - i]]

StaleReferences == <<[path |-> <<".", ".", "/", "a", "b">>]>>

\* reference lists a document may start with: up to date, permuted, stale
InitialReferences(m, d) ==
    LET e == ExpectedReferences(m, d)
    IN  IF Len(e) >= 2 THEN {e, Reverse(e)} ELSE {e, StaleReferences}

OtherKeys == ("compilerOptions" :> "strict") @@ ("extends" :> "base")

\* contents a document may start with; a package document may lack the key
InitialContents(m, d) ==
    IF d \in PackageDirectories(m)
    THEN {OtherKeys} \cup {("references" :> r) @@ OtherKeys : r \in InitialReferences(m, d)}
    ELSE {[references |-> r] : r \in InitialReferences(m, d)}

\* every package has a document; a parent document may be missing
RECURSIVE InitialDisks(_, _)
InitialDisks(m, dirs) ==
    IF dirs = {} THEN {EmptyMap}
    ELSE LET d == CHOOSE x \in dirs : TRUE
             rest == InitialDisks(m, dirs \ {d})
         IN  {(d :> c) @@ f : c \in InitialContents(m, d), f \in rest}
             \cup (IF d \in PackageDirectories(m) THEN {} ELSE rest)

(***************************************************************************)
(* The steps of link_children_packages and link_package_dependencies.      *)
(***************************************************************************)
\* TypescriptParentProjectReference::from_directory: a missing file loads
\* as a document without references
from_directory_parent(dsk, directory) ==
    IF directory \in DOMAIN dsk THEN dsk[directory] ELSE [references |-> <<>>]

\* TypescriptConfig::from_directory
from_directory_package(dsk, directory) == dsk[directory]

\* ConfigurationFile::write
write(dsk, directory, contents) == (directory :> contents) @@ dsk

\* the fold over internal_package_manifests() in the order of the Vec
RECURSIVE fold_key_children_by_parent(_, _, _)
fold_key_children_by_parent(acc, m, order) ==
    IF order = <<>> THEN acc
    ELSE fold_key_children_by_parent(
             key_children_by_parent(acc, m[Head(order)].directory), m, Tail(order))

\* the comparison made on sorted copies of both lists
needs_update_order_insensitive(current, desired) ==
    LET paths(refs) == sort_unstable([i \in 1..Len(refs) |-> refs[i].path])
    IN  paths(current) # paths(desired)

\* !current_project_references.eq(&desired_project_references)
needs_update(current, desired) == current # desired

\* the branch taken without the test of the action at line 135
children_outcome_write_on_lint(act, needs) ==
    IF ~needs THEN "Unchanged" ELSE "Updated"

\* the branch taken when Lint returns before reporting
children_outcome_silent_lint(act, needs) ==
    IF ~needs \/ act = "Lint" THEN "Unchanged" ELSE "Updated"

\* the branch a parent document takes once compared
children_outcome(act, needs) ==
    IF ~needs THEN "Unchanged"
    ELSE IF act = "Lint" THEN "Divergent"
    ELSE "Updated"

\* serde_json::to_string_pretty of a list and of a keyed document
json_array(v) == [type |-> "array", value |-> v]
json_object(v) == [type |-> "object", value |-> v]

\* the two println! of the children pass
children_report(path, desired) == [path |-> path, serialized |-> json_array(desired)]

\* the two println! of the dependencies pass
dependencies_report(tsconfig) ==
    [path |-> tsconfig.path, serialized |-> json_object(tsconfig.contents)]

\* the desired references with the arguments of diff_paths exchanged
desired_dependency_references_swapped(m, n, order) ==
    LET paths == [i \in 1..Len(order) |->
                     to_str(diff_paths(m[n].directory, m[order[i]].directory))]
        sorted == sort_unstable(paths)
    IN  [i \in 1..Len(sorted) |-> TypescriptProjectReference(sorted[i])]

\* desired_project_references of package n, its internal dependencies being
\* iterated in the given order
desired_dependency_references(m, n, order) ==
    LET paths == [i \in 1..Len(order) |->
                     to_str(diff_paths(m[order[i]].directory, m[n].directory))]
        sorted == sort_unstable(paths)
    IN  [i \in 1..Len(sorted) |-> TypescriptProjectReference(sorted[i])]

\* tsconfig.contents.get("references") ... unwrap_or_default()
current_project_references(contents) ==
    IF "references" \in DOMAIN contents THEN contents["references"] ELSE <<>>

\* the update building a document that holds the references alone
insert_references_fresh(contents, desired) == ("references" :> desired)

\* tsconfig.contents.insert("references", desired)
insert_references(contents, desired) == ("references" :> desired) @@ contents

\* the closing test looking at the dependencies pass alone
link_result_dependencies_only(act, children_ok, dependencies_ok) ==
    IF act = "Lint" /\ ~dependencies_ok THEN "ProjectReferencesOutOfDate" ELSE "Ok"

\* the terminal value of link_typescript_project_references
link_result(act, children_ok, dependencies_ok) ==
    IF act = "Lint" /\ ~(children_ok /\ dependencies_ok)
    THEN "ProjectReferencesOutOfDate"
    ELSE "Ok"

NoWrite == [completed |-> FALSE, documents |-> {}]

Init ==
    /\ manifests \in ManifestSets
    /\ action \in Actions
    /\ disk \in InitialDisks(manifests, ManagedDirectories(manifests))
    /\ pc = "start"
    /\ hierarchy = EmptyMap
    /\ pendingPackages = {}
    /\ tsconfig_diffs = <<>>
    /\ is_children_link_success = TRUE
    /\ is_dependencies_link_success = TRUE
    /\ reports = {}
    /\ written = {}
    /\ failure = "none"
    /\ result = "none"
    /\ lastWrite = NoWrite
    /\ accumulator = EmptyMap
    /\ unfolded = {}
    /\ folded = {}

\* a pass returned Err(kind) and the expect of the orchestrator panicked
Panic(kind) ==
    /\ failure' = kind
    /\ result' = "panic"
    /\ pc' = "done"
    /\ hierarchy' = EmptyMap
    /\ pendingPackages' = {}
    /\ tsconfig_diffs' = <<>>
    /\ UNCHANGED <<manifests, action, disk, is_children_link_success,
                   is_dependencies_link_success, reports, written, lastWrite>>
    /\ UNCHANGED foldVars

\* MonorepoManifest::from_directory fails
MonorepoManifestUnreadable ==
    /\ pc = "start"
    /\ Panic("none")

\* internal_package_manifests() or package_manifests_by_package_name() fails
EnumeratePackageManifestsFails ==
    /\ \/ pc = "start"
       \/ pc = "children" /\ hierarchy = EmptyMap
    /\ Panic("EnumeratePackageManifests")

\* link_children_packages up to the fold
LinkChildrenPackages ==
    /\ pc = "start"
    /\ \E order \in Orderings(DOMAIN manifests) :
           hierarchy' = fold_key_children_by_parent(EmptyMap, manifests, order)
    /\ pc' = "children"
    /\ is_children_link_success' = TRUE
    /\ UNCHANGED <<manifests, action, disk, pendingPackages, tsconfig_diffs,
                   is_dependencies_link_success, reports, written, failure,
                   result, lastWrite>>
    /\ UNCHANGED foldVars

Without(map, key) == [k \in (DOMAIN map) \ {key} |-> map[k]]

\* one iteration of the try_for_each closure
LinkChildrenStep ==
    /\ pc = "children"
    /\ \E directory \in DOMAIN hierarchy :
         LET desired == create_project_references(hierarchy[directory])
             tsconfig == from_directory_parent(disk, directory)
             outcome == children_outcome(action, needs_update(tsconfig.references, desired))
         IN  /\ hierarchy' = Without(hierarchy, directory)
             /\ IF outcome = "Divergent"
                THEN /\ is_children_link_success' = FALSE
                     /\ reports' = reports \cup {children_report(directory, desired)}
                     /\ UNCHANGED <<disk, written>>
                ELSE IF outcome = "Updated"
                THEN /\ disk' = write(disk, directory, [tsconfig EXCEPT !.references = desired])
                     /\ written' = written \cup {directory}
                     /\ UNCHANGED <<is_children_link_success, reports>>
                ELSE UNCHANGED <<disk, written, is_children_link_success, reports>>
    /\ UNCHANGED <<manifests, action, pc, pendingPackages, tsconfig_diffs,
                   is_dependencies_link_success, failure, result, lastWrite>>
    /\ UNCHANGED foldVars

\* a from_directory of either pass fails
FromFileFails ==
    /\ \/ pc = "children" /\ hierarchy # EmptyMap
       \/ pc = "dependencies" /\ pendingPackages # {}
    /\ Panic("FromFile")

\* a write of either pass fails, the file keeping its contents
WriteFails ==
    /\ action = "Write"
    /\ \/ /\ pc = "children"
          /\ \E directory \in DOMAIN hierarchy :
                needs_update(from_directory_parent(disk, directory).references,
                             create_project_references(hierarchy[directory]))
       \/ /\ pc = "dependencies"
          /\ pendingPackages = {}
          /\ tsconfig_diffs # <<>>
    /\ Panic("Write")

\* link_children_packages returns and link_package_dependencies starts
LinkPackageDependencies ==
    /\ pc = "children"
    /\ hierarchy = EmptyMap
    /\ pc' = "dependencies"
    /\ pendingPackages' = DOMAIN manifests
    /\ tsconfig_diffs' = <<>>
    /\ is_dependencies_link_success' = TRUE
    /\ UNCHANGED <<manifests, action, disk, hierarchy, is_children_link_success,
                   reports, written, failure, result, lastWrite>>
    /\ UNCHANGED foldVars

\* the closure computing the diff of one package
ComputeDiffStep ==
    /\ pc = "dependencies"
    /\ \E n \in pendingPackages :
       \E order \in Orderings(manifests[n].dependencies) :
         LET package_directory == manifests[n].directory
             contents == from_directory_package(disk, package_directory)
             desired == desired_dependency_references(manifests, n, order)
             current == current_project_references(contents)
         IN  /\ pendingPackages' = pendingPackages \ {n}
             /\ tsconfig_diffs' =
                    IF needs_update(current, desired)
                    THEN Append(tsconfig_diffs,
                                [path |-> package_directory,
                                 contents |-> insert_references(contents, desired)])
                    ELSE tsconfig_diffs
    /\ UNCHANGED <<manifests, action, disk, pc, hierarchy, is_children_link_success,
                   is_dependencies_link_success, reports, written, failure,
                   result, lastWrite>>
    /\ UNCHANGED foldVars

\* the closure acting on the next computed diff
ApplyDiffStep ==
    /\ pc = "dependencies"
    /\ pendingPackages = {}
    /\ tsconfig_diffs # <<>>
    /\ LET tsconfig == Head(tsconfig_diffs)
       IN  /\ tsconfig_diffs' = Tail(tsconfig_diffs)
           /\ IF action = "Lint"
              THEN /\ is_dependencies_link_success' = FALSE
                   /\ reports' = reports \cup {dependencies_report(tsconfig)}
                   /\ UNCHANGED <<disk, written>>
              ELSE /\ disk' = write(disk, tsconfig.path, tsconfig.contents)
                   /\ written' = written \cup {tsconfig.path}
                   /\ UNCHANGED <<is_dependencies_link_success, reports>>
    /\ UNCHANGED <<manifests, action, pc, hierarchy, pendingPackages,
                   is_children_link_success, failure, result, lastWrite>>
    /\ UNCHANGED foldVars

\* both passes returned Ok: the closing test of the orchestrator
Finish ==
    /\ pc = "dependencies"
    /\ pendingPackages = {}
    /\ tsconfig_diffs = <<>>
    /\ pc' = "done"
    /\ result' = link_result(action, is_children_link_success, is_dependencies_link_success)
    /\ UNCHANGED <<manifests, action, disk, hierarchy, pendingPackages, tsconfig_diffs,
                   is_children_link_success, is_dependencies_link_success, reports,
                   written, failure, lastWrite>>
    /\ UNCHANGED foldVars

\* the tool is invoked again on the same monorepo
NewRun ==
    /\ pc = "done"
    /\ pc' = "start"
    /\ action' \in Actions
    /\ lastWrite' = IF action = "Write" /\ result = "Ok"
                    THEN [completed |-> TRUE, documents |-> written]
                    ELSE NoWrite
    /\ is_children_link_success' = TRUE
    /\ is_dependencies_link_success' = TRUE
    /\ reports' = {}
    /\ written' = {}
    /\ failure' = "none"
    /\ result' = "none"
    /\ UNCHANGED <<manifests, disk, hierarchy, pendingPackages, tsconfig_diffs>>
    /\ UNCHANGED foldVars

Next ==
    \/ MonorepoManifestUnreadable
    \/ EnumeratePackageManifestsFails
    \/ LinkChildrenPackages
    \/ LinkChildrenStep
    \/ FromFileFails
    \/ WriteFails
    \/ LinkPackageDependencies
    \/ ComputeDiffStep
    \/ ApplyDiffStep
    \/ Finish
    \/ NewRun

Spec == Init /\ [][Next]_vars

(***************************************************************************)
(* Hierarchy completeness, stated on the directories folded so far.        *)
(***************************************************************************)
\* C9: after folding any set of package directories in any order, the keys of
\* the map are exactly the proper ancestors of the folded directories (the root
\* being the empty path), and each value lists the next segment toward every
\* package below the key exactly once and nothing else.
HierarchyComplete ==
    /\ DOMAIN accumulator = AncestorKeys(folded)
    /\ \A key \in DOMAIN accumulator :
          /\ {accumulator[key][i] : i \in 1..Len(accumulator[key])} = NextSegments(folded, key)
          /\ Len(accumulator[key]) = Cardinality(NextSegments(folded, key))

\* two packages three levels deep below the same first segment have been folded
HierarchyCompleteWitness ==
    /\ unfolded = {}
    /\ \E d1, d2 \in folded :
          /\ d1 # d2
          /\ Len(d1) = 3 /\ Len(d2) = 3
          /\ d1[1] = d2[1]
          /\ accumulator[<<>>] = <<d1[1]>>
          /\ SubSeq(d1, 1, 2) \in DOMAIN accumulator

(***************************************************************************)
(* Properties of a run.                                                    *)
(***************************************************************************)
\* the reference list a load of the document at d yields
LoadedReferences(dsk, d) ==
    IF d \notin DOMAIN dsk THEN <<>>
    ELSE IF "references" \in DOMAIN dsk[d] THEN dsk[d]["references"]
    ELSE <<>>

\* documents whose list on disk is not the list they are meant to hold
DivergentDocuments ==
    {d \in ManagedDirectories(manifests) :
        LoadedReferences(disk, d) # ExpectedReferences(manifests, d)}

ReportedDocuments == {r.path : r \in reports}

\* same length and element-wise equal after each list is sorted on its own
SameWhenSorted(current, desired) ==
    /\ Len(current) = Len(desired)
    /\ sort_unstable([i \in 1..Len(current) |-> current[i].path])
         = sort_unstable([i \in 1..Len(desired) |-> desired[i].path])

\* C1: under Lint no step of a run changes any configuration document, whether
\* or not divergence is detected and reported.
LintNeverWrites ==
    [][action = "Lint" => (disk' = disk /\ written' = {})]_vars

\* a Lint run has ended out of date after reporting a parent document and a
\* package document
LintNeverWritesWitness ==
    /\ pc = "done"
    /\ action = "Lint"
    /\ result = "ProjectReferencesOutOfDate"
    /\ ReportedDocuments \cap PackageDirectories(manifests) # {}
    /\ ReportedDocuments \ PackageDirectories(manifests) # {}

\* C2: the run ends with ProjectReferencesOutOfDate only under Lint with a
\* divergent document, and a run whose passes both returned ends with it exactly
\* then and with Ok(()) otherwise.
OutOfDateIffLintDivergence ==
    /\ result = "ProjectReferencesOutOfDate" => (action = "Lint" /\ DivergentDocuments # {})
    /\ (pc = "done" /\ result # "panic") =>
          /\ result \in {"Ok", "ProjectReferencesOutOfDate"}
          /\ result = "ProjectReferencesOutOfDate" <=> (action = "Lint" /\ DivergentDocuments # {})

\* a Lint run has ended out of date on a divergence of the children pass alone
OutOfDateIffLintDivergenceWitness ==
    /\ pc = "done"
    /\ action = "Lint"
    /\ result = "ProjectReferencesOutOfDate"
    /\ is_dependencies_link_success
    /\ ~is_children_link_success

VisitsParent(d) ==
    /\ pc = "children"
    /\ pc' = "children"
    /\ d \in DOMAIN hierarchy
    /\ d \notin DOMAIN hierarchy'

\* the step computes the diff of package n and the pass goes on
VisitsPackage(n) ==
    /\ pc = "dependencies"
    /\ pc' = "dependencies"
    /\ n \in pendingPackages
    /\ n \notin pendingPackages'

ParentUnchanged == UNCHANGED <<disk, written, reports, is_children_link_success>>

\* C5 as stated: a document whose current list equals the desired list once
\* both are sorted is left unchanged by either pass, whatever its stored order.
ComparisonIsOrderInsensitive ==
    [][/\ \A d \in DOMAIN hierarchy :
            (VisitsParent(d) /\ SameWhenSorted(LoadedReferences(disk, d),
                                               ExpectedReferences(manifests, d)))
                => ParentUnchanged
       /\ \A n \in pendingPackages :
            (VisitsPackage(n) /\ SameWhenSorted(LoadedReferences(disk, manifests[n].directory),
                                                ExpectedReferences(manifests, manifests[n].directory)))
                => tsconfig_diffs' = tsconfig_diffs]_vars

\* C5 amended: a document is left unchanged by either pass exactly when its
\* current list equals the desired list element by element in ascending order;
\* a list holding the desired references in another order is out of date.
ComparisonIsOrderSensitive ==
    [][/\ \A d \in DOMAIN hierarchy :
            VisitsParent(d) =>
                (ParentUnchanged <=>
                    LoadedReferences(disk, d) = ExpectedReferences(manifests, d))
       /\ \A n \in pendingPackages :
            VisitsPackage(n) =>
                (tsconfig_diffs' = tsconfig_diffs <=>
                    LoadedReferences(disk, manifests[n].directory)
                        = ExpectedReferences(manifests, manifests[n].directory))]_vars

\* a Lint run has reported a parent document and a package document that hold
\* their desired references in descending order
ComparisonIsOrderSensitiveWitness ==
    /\ action = "Lint"
    /\ \E d \in ReportedDocuments \cap PackageDirectories(manifests) :
          /\ SameWhenSorted(LoadedReferences(disk, d), ExpectedReferences(manifests, d))
          /\ LoadedReferences(disk, d) # ExpectedReferences(manifests, d)
    /\ \E d \in ReportedDocuments \ PackageDirectories(manifests) :
          /\ SameWhenSorted(LoadedReferences(disk, d), ExpectedReferences(manifests, d))
          /\ LoadedReferences(disk, d) # ExpectedReferences(manifests, d)

\* C6: every report of a Lint run is the path of the document followed by the
\* desired reference list of that document and nothing else of it.
ReportIsPathAndDesiredList ==
    \A r \in reports :
        /\ r.serialized.type = "array"
        /\ r.serialized.value = ExpectedReferences(manifests, r.path)

\* C7: a Lint run whose passes both returned has reported exactly the divergent
\* documents of both passes, and no Lint run reports an up-to-date document.
LintReportsEveryDivergence ==
    /\ action = "Lint" => ReportedDocuments \subseteq DivergentDocuments
    /\ (pc = "done" /\ action = "Lint" /\ result # "panic") =>
          ReportedDocuments = DivergentDocuments

\* a Lint run has ended out of date with several documents reported in each
\* pass and an up-to-date document left out
LintReportsEveryDivergenceWitness ==
    /\ pc = "done"
    /\ action = "Lint"
    /\ result = "ProjectReferencesOutOfDate"
    /\ Cardinality(ReportedDocuments \cap PackageDirectories(manifests)) >= 2
    /\ Cardinality(ReportedDocuments \ PackageDirectories(manifests)) >= 2
    /\ ManagedDirectories(manifests) \ ReportedDocuments # {}

\* C8: a step that changes a package document sets its references key and
\* leaves every other key as it was, adding and removing none.
FieldPreservation ==
    [][\A d \in PackageDirectories(manifests) :
          (d \in DOMAIN disk /\ disk'[d] # disk[d]) =>
              /\ "references" \in DOMAIN disk'[d]
              /\ (DOMAIN disk'[d]) \ {"references"} = (DOMAIN disk[d]) \ {"references"}
              /\ \A k \in (DOMAIN disk[d]) \ {"references"} : disk'[d][k] = disk[d][k]]_vars

\* a Write run has added references to a package document that had none and
\* holds other keys
FieldPreservationWitness ==
    /\ action = "Write"
    /\ \E d \in written \cap PackageDirectories(manifests) :
          /\ "compilerOptions" \in DOMAIN disk[d]
          /\ "extends" \in DOMAIN disk[d]
          /\ Len(disk[d]["references"]) = 2

\* C10: a run in which a pass failed ends by returning the LinkErrorKind of that
\* failure.
FailureIsReturned ==
    (pc = "done" /\ failure # "none") => result = failure

====
